---- MODULE Spec2Model ----
(***************************************************************************)
(* Pet registry canister (icp_rust_boilerplate_backend/src/lib.rs).        *)
(*                                                                         *)
(* The canister state is the identifier counter ID_COUNTER, the pet map    *)
(* PET_STORAGE and the found-report map FOUND_PET_STORAGE.  Every update   *)
(* or query call runs to completion, so each handler is one action.  A     *)
(* handler is written as an operator from the state before the call, the   *)
(* caller, the time of the call and the arguments to the state after the   *)
(* call and the value returned; the action applies it.  The properties     *)
(* speak of a call's result by applying the same operator to the current   *)
(* state, for every caller and argument.  An outcome is bound with         *)
(* \E o \in {..} or \A o \in {..} so that it is computed once.             *)
(*                                                                         *)
(* Option<T> is a sequence of length 0 (None) or 1 (Some).  Result<T,E> is *)
(* a record whose kind is "Ok" or the name of the Error variant.           *)
(* The counter is a u64; the model stops registering at MaxPets, far below *)
(* the 2^64 registrations an overflow of current_value + 1 would need.     *)
(***************************************************************************)
EXTENDS Integers, Sequences, FiniteSets, TLC

VARIABLES counter, pets, found, now, issued, deleted, writes

vars == <<counter, pets, found, now, issued, deleted, writes>>

(* ------------------------------ bounds -------------------------------- *)

\* registrations explored: register_pet is not taken once the counter is here
MaxPets == 2

\* the clock takes the values 0..MaxTime
MaxTime == 1

\* update calls that change stable memory explored along one run
MaxWrites == 3

\* ids a call may name: every id that can be issued and one that never is
Ids == 0..MaxPets

Callers == {"A", "B"}

ValidPetPayloads ==
    [pet_name : {"Rex"}, pet_breed : {"Labrador"},
     pet_color : {"Brown", "Black"}, pet_photo : {"uri1"}]

\* a payload with one field left empty, for each field, and the Default one
BlankPetPayloads ==
    LET p == [pet_name |-> "Rex", pet_breed |-> "Labrador",
              pet_color |-> "Brown", pet_photo |-> "uri1"]
    IN  { [p EXCEPT !.pet_name = ""], [p EXCEPT !.pet_breed = ""],
          [p EXCEPT !.pet_color = ""], [p EXCEPT !.pet_photo = ""],
          [pet_name |-> "", pet_breed |-> "", pet_color |-> "", pet_photo |-> ""] }

PetPayloads == ValidPetPayloads \cup BlankPetPayloads

LostLocations == {"", "Central Park", "Main St"}

ValidFoundPetReportPayloads ==
    [finder_name : {"Bob"}, found_location : {"5th Ave", "Pier 4"}]

\* a report with the finder's name left empty, one with the location
BlankFoundPetReportPayloads ==
    { [finder_name |-> "", found_location |-> "5th Ave"],
      [finder_name |-> "Bob", found_location |-> ""] }

FoundPetReportPayloads == ValidFoundPetReportPayloads \cup BlankFoundPetReportPayloads

(* ------------------------------ helpers ------------------------------- *)

None == <<>>

Some(x) == <<x>>

is_empty(s) == s = ""

Ok(v) == [kind |-> "Ok", value |-> v]

Err(k) == [kind |-> k]

\* the three stable structures as one value
State(c, p, f) == [counter |-> c, pets |-> p, found |-> f]

\* what a handler yields: the state after the call and the returned value
Outcome(s, r) == [state |-> s, ret |-> r]

\* StableBTreeMap::get
map_get(m, k) == IF k \in DOMAIN m THEN Some(m[k]) ELSE None

\* StableBTreeMap::insert (replace semantics)
\* an insert that throws the other entries away
map_insert_alone(m, k, v) == [x \in {k} |-> v]

map_insert(m, k, v) == [x \in (DOMAIN m) \cup {k} |-> IF x = k THEN v ELSE m[x]]

\* a remove that leaves the entry in place
map_remove_keeps(m, k) == m

\* StableBTreeMap::remove
map_remove(m, k) == [x \in (DOMAIN m) \ {k} |-> m[x]]

\* an iteration that visits the keys from the largest down
RECURSIVE keys_in_reverse(_)
keys_in_reverse(K) ==
    IF K = {} THEN <<>>
    ELSE LET k == CHOOSE x \in K : \A y \in K : x >= y
         IN  <<k>> \o keys_in_reverse(K \ {k})

\* the keys of a map in increasing order, as StableBTreeMap::iter visits them
RECURSIVE keys_in_order(_)
keys_in_order(K) ==
    IF K = {} THEN <<>>
    ELSE LET k == CHOOSE x \in K : \A y \in K : x <= y
         IN  <<k>> \o keys_in_order(K \ {k})

\* a Cell::set that hands back the old value without storing the new one
cell_set_keeps_old(old, new) == [stored |-> old, returned |-> old]

\* a Cell::set that stores one more than it was given
cell_set_skips(old, new) == [stored |-> new + 1, returned |-> old]

\* a Cell::set that returns the value it has just stored
cell_set_returns_new(old, new) == [stored |-> new, returned |-> new]

\* Cell::set stores the new value and returns the value it replaces
cell_set(old, new) == [stored |-> new, returned |-> old]

\* the payload check shared by register_pet and update_pet_info
payload_invalid(payload) ==
    \/ is_empty(payload.pet_name)
    \/ is_empty(payload.pet_breed)
    \/ is_empty(payload.pet_color)
    \/ is_empty(payload.pet_photo)

\* an ownership check that lets every caller through
not_owner_never(pet, caller) == FALSE

not_owner(pet, caller) == pet.owner # caller

\* a state check that takes every pet for a lost one
not_reported_lost_never(pet) == FALSE

not_reported_lost(pet) == ~pet.is_lost

\* the Pet that register_pet builds
new_pet(id, caller, t, payload) ==
    [id |-> id,
     pet_name |-> payload.pet_name,
     pet_breed |-> payload.pet_breed,
     pet_color |-> payload.pet_color,
     pet_photo |-> payload.pet_photo,
     owner |-> caller,
     is_lost |-> FALSE,
     lost_location |-> None,
     created_at |-> t,
     updated_at |-> None]

\* the assignments of report_lost_pet
\* a report_lost_pet that keeps the location a lost pet already has
mark_lost_first_location(pet, lost_location, t) ==
    [pet EXCEPT !.is_lost = TRUE,
                !.lost_location = IF pet.is_lost THEN pet.lost_location
                                  ELSE Some(lost_location),
                !.updated_at = Some(t)]

\* a report_lost_pet that flips the flag instead of setting it
mark_lost_toggles(pet, lost_location, t) ==
    [pet EXCEPT !.is_lost = ~pet.is_lost,
                !.lost_location = Some(lost_location),
                !.updated_at = Some(t)]

mark_lost(pet, lost_location, t) ==
    [pet EXCEPT !.is_lost = TRUE,
                !.lost_location = Some(lost_location),
                !.updated_at = Some(t)]

\* a FoundPetReport with the two strings of the payload swapped
new_report_swapped(id, payload, t) ==
    [pet_id |-> id,
     finder_name |-> payload.found_location,
     found_location |-> payload.finder_name,
     created_at |-> t]

\* the FoundPetReport that report_found_pet builds
new_report(id, payload, t) ==
    [pet_id |-> id,
     finder_name |-> payload.finder_name,
     found_location |-> payload.found_location,
     created_at |-> t]

\* report_found_pet forgetting to clear lost_location
mark_found_keeps_location(pet, t) ==
    [pet EXCEPT !.is_lost = FALSE,
                !.updated_at = Some(t)]

\* the assignments of report_found_pet
\* a report_found_pet that stamps the record as made anew
mark_found_restamps(pet, t) ==
    [pet EXCEPT !.is_lost = FALSE,
                !.lost_location = None,
                !.created_at = t,
                !.updated_at = Some(t)]

mark_found(pet, t) ==
    [pet EXCEPT !.is_lost = FALSE,
                !.lost_location = None,
                !.updated_at = Some(t)]

\* an update_pet_info that also takes the pet off the lost list
apply_payload_clears_lost(pet, payload, t) ==
    [pet EXCEPT !.pet_name = payload.pet_name,
                !.pet_breed = payload.pet_breed,
                !.pet_color = payload.pet_color,
                !.pet_photo = payload.pet_photo,
                !.is_lost = FALSE,
                !.lost_location = None,
                !.updated_at = Some(t)]

\* the assignments of update_pet_info
apply_payload(pet, payload, t) ==
    [pet EXCEPT !.pet_name = payload.pet_name,
                !.pet_breed = payload.pet_breed,
                !.pet_color = payload.pet_color,
                !.pet_photo = payload.pet_photo,
                !.updated_at = Some(t)]

\* an insert under the counter's value instead of the pet's id
do_insert_pet_under_counter(s, pet) ==
    State(s.counter, map_insert(s.pets, s.counter, pet), s.found)

do_insert_pet(s, pet) == State(s.counter, map_insert(s.pets, pet.id, pet), s.found)

(* ------------------------------ handlers ------------------------------ *)

register_pet(s, caller, t, payload) ==
    IF payload_invalid(payload)
    THEN Outcome(s, Err("InvalidInput"))
    ELSE LET current_value == s.counter
             set == cell_set(current_value, current_value + 1)
             id  == set.returned
             pet == new_pet(id, caller, t, payload)
         IN  Outcome(do_insert_pet(State(set.stored, s.pets, s.found), pet), Ok(pet))

\* a report_lost_pet that looks the pet up before it checks the location
report_lost_pet_lookup_first(s, caller, t, id, lost_location) ==
    IF map_get(s.pets, id) = None
    THEN Outcome(s, Err("NotFound"))
    ELSE IF is_empty(lost_location)
    THEN Outcome(s, Err("InvalidInput"))
    ELSE LET old == s.pets[id]
         IN  IF not_owner(old, caller)
             THEN Outcome(s, Err("NotAuthorized"))
             ELSE LET pet == mark_lost(old, lost_location, t)
                  IN  Outcome(State(s.counter, map_insert(s.pets, id, pet), s.found),
                              Ok(pet))

report_lost_pet(s, caller, t, id, lost_location) ==
    IF is_empty(lost_location)
    THEN Outcome(s, Err("InvalidInput"))
    ELSE IF map_get(s.pets, id) = None
    THEN Outcome(s, Err("NotFound"))
    ELSE LET old == s.pets[id]
         IN  IF not_owner(old, caller)
             THEN Outcome(s, Err("NotAuthorized"))
             ELSE LET pet == mark_lost(old, lost_location, t)
                  IN  Outcome(State(s.counter, map_insert(s.pets, id, pet), s.found),
                              Ok(pet))

report_found_pet(s, caller, t, id, payload) ==
    IF is_empty(payload.finder_name) \/ is_empty(payload.found_location)
    THEN Outcome(s, Err("InvalidInput"))
    ELSE IF map_get(s.pets, id) = None
    THEN Outcome(s, Err("NotFound"))
    ELSE LET old == s.pets[id]
         IN  IF not_reported_lost(old)
             THEN Outcome(s, Err("InvalidInput"))
             ELSE LET report == new_report(id, payload, t)
                      pet == mark_found(old, t)
                  IN  Outcome(State(s.counter,
                                    map_insert(s.pets, id, pet),
                                    map_insert(s.found, id, report)),
                              Ok(pet))

\* a report_found_pet that writes the pet record before the report
report_found_pet_writes_pet_first(s, caller, t, id, payload) ==
    IF report_found_pet(s, caller, t, id, payload).ret.kind # "Ok"
    THEN <<s>>
    ELSE LET report == new_report(id, payload, t)
             pet == mark_found(s.pets[id], t)
             first == State(s.counter, map_insert(s.pets, id, pet), s.found)
         IN  <<s, first,
               State(first.counter, first.pets, map_insert(first.found, id, report))>>

\* the states stable memory goes through during report_found_pet: the one
\* it starts in, and for a call that succeeds the one after the insert into
\* FOUND_PET_STORAGE and then the one after the insert into PET_STORAGE
report_found_pet_writes(s, caller, t, id, payload) ==
    IF report_found_pet(s, caller, t, id, payload).ret.kind # "Ok"
    THEN <<s>>
    ELSE LET report == new_report(id, payload, t)
             pet == mark_found(s.pets[id], t)
             first == State(s.counter, s.pets, map_insert(s.found, id, report))
         IN  <<s, first,
               State(first.counter, map_insert(first.pets, id, pet), first.found)>>

\* a delete_pet that takes the pet's found report along
delete_pet_drops_report(s, caller, id) ==
    IF map_get(s.pets, id) = None
    THEN Outcome(s, Err("NotFound"))
    ELSE IF not_owner(s.pets[id], caller)
    THEN Outcome(s, Err("NotAuthorized"))
    ELSE Outcome(State(s.counter, map_remove(s.pets, id), map_remove(s.found, id)), Ok(id))

\* a delete_pet that removes the record before it checks the owner
delete_pet_removes_first(s, caller, id) ==
    IF map_get(s.pets, id) = None
    THEN Outcome(s, Err("NotFound"))
    ELSE LET removed == State(s.counter, map_remove(s.pets, id), s.found)
         IN  IF not_owner(s.pets[id], caller)
             THEN Outcome(removed, Err("NotAuthorized"))
             ELSE Outcome(removed, Ok(id))

delete_pet(s, caller, id) ==
    IF map_get(s.pets, id) = None
    THEN Outcome(s, Err("NotFound"))
    ELSE IF not_owner(s.pets[id], caller)
    THEN Outcome(s, Err("NotAuthorized"))
    ELSE Outcome(State(s.counter, map_remove(s.pets, id), s.found), Ok(id))

update_pet_info(s, caller, t, id, payload) ==
    IF payload_invalid(payload)
    THEN Outcome(s, Err("InvalidInput"))
    ELSE IF map_get(s.pets, id) = None
    THEN Outcome(s, Err("NotFound"))
    ELSE LET old == s.pets[id]
         IN  IF not_owner(old, caller)
             THEN Outcome(s, Err("NotAuthorized"))
             ELSE LET pet == apply_payload(old, payload, t)
                  IN  Outcome(State(s.counter, map_insert(s.pets, id, pet), s.found),
                              Ok(pet))

get_all_pets(s) ==
    LET ks == keys_in_order(DOMAIN s.pets)
    IN  [i \in 1..Len(ks) |-> s.pets[ks[i]]]

get_pet(s, id) == map_get(s.pets, id)

(* ------------------------------ the system ---------------------------- *)

\* the canister state now
Cur == State(counter, pets, found)

Init ==
    /\ counter = 0
    /\ pets = <<>>
    /\ found = <<>>
    /\ now = 0
    /\ issued = <<>>
    /\ deleted = {}
    /\ writes = 0

\* install the state a handler left; a call that changes stable memory is
\* explored only while fewer than MaxWrites such calls were served
Install(o) ==
    /\ o.state # Cur => writes < MaxWrites
    /\ counter' = o.state.counter
    /\ pets' = o.state.pets
    /\ found' = o.state.found
    /\ writes' = IF o.state # Cur THEN writes + 1 ELSE writes

RegisterPet ==
    /\ counter < MaxPets
    /\ \E caller \in Callers, payload \in PetPayloads :
         \E o \in {register_pet(Cur, caller, now, payload)} :
             /\ Install(o)
             /\ issued' = IF o.ret.kind = "Ok"
                          THEN Append(issued, o.ret.value.id)
                          ELSE issued
    /\ UNCHANGED <<now, deleted>>

ReportLostPet ==
    /\ \E caller \in Callers, id \in Ids, lost_location \in LostLocations :
         \E o \in {report_lost_pet(Cur, caller, now, id, lost_location)} :
             /\ Install(o)
    /\ UNCHANGED <<now, issued, deleted>>

ReportFoundPet ==
    /\ \E caller \in Callers, id \in Ids, payload \in FoundPetReportPayloads :
         \E o \in {report_found_pet(Cur, caller, now, id, payload)} :
             /\ Install(o)
    /\ UNCHANGED <<now, issued, deleted>>

DeletePet ==
    /\ \E caller \in Callers, id \in Ids :
         \E o \in {delete_pet(Cur, caller, id)} :
             /\ Install(o)
             /\ deleted' = IF o.ret.kind = "Ok" THEN deleted \cup {id} ELSE deleted
    /\ UNCHANGED <<now, issued>>

UpdatePetInfo ==
    /\ \E caller \in Callers, id \in Ids, payload \in PetPayloads :
         \E o \in {update_pet_info(Cur, caller, now, id, payload)} :
             /\ Install(o)
    /\ UNCHANGED <<now, issued, deleted>>

\* the queries answer from the state, whoever calls, and write nothing
GetAllPets ==
    /\ Len(get_all_pets(Cur)) = Cardinality(DOMAIN pets)
    /\ UNCHANGED <<counter, pets, found, now, issued, deleted, writes>>

GetPet ==
    /\ \E id \in Ids : Len(get_pet(Cur, id)) <= 1
    /\ UNCHANGED <<counter, pets, found, now, issued, deleted, writes>>

\* ic_cdk::api::time never goes back between calls
Tick ==
    /\ now < MaxTime
    /\ now' = now + 1
    /\ UNCHANGED <<counter, pets, found, issued, deleted, writes>>

Next ==
    \/ RegisterPet
    \/ ReportLostPet
    \/ ReportFoundPet
    \/ DeletePet
    \/ UpdatePetInfo
    \/ GetAllPets
    \/ GetPet
    \/ Tick

Spec == Init /\ [][Next]_vars

\* report_found_pet cut short between its two writes: the report is in
\* FOUND_PET_STORAGE and the pet record is not yet written
ReportFoundPetInterrupted ==
    /\ \E caller \in Callers, id \in Ids, payload \in FoundPetReportPayloads :
         \E w \in {report_found_pet_writes(Cur, caller, now, id, payload)} :
             /\ Len(w) = 3
             /\ Install([state |-> w[2]])
    /\ UNCHANGED <<now, issued, deleted>>

\* the canister with the two writes of report_found_pet as separate steps
NextSplit ==
    \/ RegisterPet
    \/ ReportLostPet
    \/ ReportFoundPet
    \/ ReportFoundPetInterrupted
    \/ DeletePet
    \/ UpdatePetInfo
    \/ GetAllPets
    \/ GetPet
    \/ Tick

SpecSplit == Init /\ [][NextSplit]_vars

(* ------------------------------ properties ---------------------------- *)

Errors == {"NotFound", "NotAuthorized", "InvalidInput"}

\* P holds of the outcome of every call of the handler that can be made now
ForRegister(P(_)) ==
    \A c \in Callers, p \in PetPayloads : \A o \in {register_pet(Cur, c, now, p)} : P(o)

ForReportLost(P(_)) ==
    \A c \in Callers, id \in Ids, l \in LostLocations :
        \A o \in {report_lost_pet(Cur, c, now, id, l)} : P(o)

ForReportFound(P(_)) ==
    \A c \in Callers, id \in Ids, p \in FoundPetReportPayloads :
        \A o \in {report_found_pet(Cur, c, now, id, p)} : P(o)

ForDelete(P(_)) ==
    \A c \in Callers, id \in Ids : \A o \in {delete_pet(Cur, c, id)} : P(o)

ForUpdate(P(_)) ==
    \A c \in Callers, id \in Ids, p \in PetPayloads :
        \A o \in {update_pet_info(Cur, c, now, id, p)} : P(o)

\* P holds of the outcome of every owner-gated call caller c can make on id
\* now with a payload of PP or a location of LL
ForGated(c, id, PP, LL, P(_)) ==
    /\ \A p \in PP : \A o \in {update_pet_info(Cur, c, now, id, p)} : P(o)
    /\ \A l \in LL : \A o \in {report_lost_pet(Cur, c, now, id, l)} : P(o)
    /\ \A o \in {delete_pet(Cur, c, id)} : P(o)

Rejected(o) == o.ret.kind \in Errors

\* C1: the ids returned by the successful register_pet calls so far are
\* strictly increasing in the order of the calls, whatever was deleted in
\* between, and a register_pet that succeeds now returns an id greater than
\* all of them: no id is issued twice, none is issued again after its pet
\* was deleted.
C1_IdsStrictlyIncreasing ==
    /\ \A i, j \in 1..Len(issued) : i < j => issued[i] < issued[j]
    /\ ForRegister(LAMBDA o :
         o.ret.kind = "Ok" =>
            /\ \A i \in 1..Len(issued) : issued[i] < o.ret.value.id
            /\ o.ret.value.id \notin deleted)

\* two registrations with a delete of the first pet in between
C1_Witness ==
    /\ Len(issued) = 2
    /\ issued[1] \in deleted
    /\ issued[2] \in DOMAIN pets

\* C2: the id register_pet assigns is the new value of the counter: the
\* first pet registered has id 1, and the id returned last is the counter's
\* current value.
C2_IdIsNewCounterValue ==
    issued # <<>> =>
        /\ issued[1] = 1
        /\ issued[Len(issued)] = counter

\* C3: a call that returns an error leaves the counter, the pet map and the
\* found-report map as they were.
C3_ErrorLeavesStateUnchanged ==
    /\ ForRegister(LAMBDA o : Rejected(o) => o.state = Cur)
    /\ ForReportLost(LAMBDA o : Rejected(o) => o.state = Cur)
    /\ ForReportFound(LAMBDA o : Rejected(o) => o.state = Cur)
    /\ ForDelete(LAMBDA o : Rejected(o) => o.state = Cur)
    /\ ForUpdate(LAMBDA o : Rejected(o) => o.state = Cur)

\* a state with a pet and a found report where each handler has a call that
\* is rejected, and each kind of error is returned
C3_Witness ==
    /\ pets # <<>>
    /\ found # <<>>
    /\ ~ForRegister(LAMBDA o : o.ret.kind # "InvalidInput")
    /\ ~ForReportLost(LAMBDA o : o.ret.kind # "NotAuthorized")
    /\ ~ForReportFound(LAMBDA o : o.ret.kind # "InvalidInput")
    /\ ~ForDelete(LAMBDA o : o.ret.kind # "NotAuthorized")
    /\ ~ForUpdate(LAMBDA o : o.ret.kind # "NotFound")

\* C4: every stored pet has a lost_location exactly when it is lost.
C4_LostLocationIffLost ==
    \A id \in DOMAIN pets : (pets[id].lost_location # None) <=> pets[id].is_lost

\* a pet that was reported lost at one time and found at a later one, and
\* has no lost_location any more
C4_Witness ==
    \E id \in DOMAIN pets \cap DOMAIN found :
        /\ ~pets[id].is_lost
        /\ pets[id].lost_location = None
        /\ pets[id].created_at < found[id].created_at

\* the callers that do not own the pet stored under id
NonOwners(id) == { c \in Callers : c # pets[id].owner }

\* C5 as stated: on an existing pet, every update_pet_info, report_lost_pet
\* and delete_pet by a caller other than the owner returns NotAuthorized and
\* leaves the stored record as it was.
C5_NonOwnerAlwaysNotAuthorized ==
    \A id \in DOMAIN pets : \A c \in NonOwners(id) :
        ForGated(c, id, PetPayloads, LostLocations, LAMBDA o :
            /\ o.ret.kind = "NotAuthorized"
            /\ get_pet(o.state, id) = get_pet(Cur, id))

\* C5 as amended: on an existing pet, no update_pet_info, report_lost_pet or
\* delete_pet by a caller other than the owner changes the stored record;
\* the call returns NotAuthorized when its string arguments are all
\* non-empty, and InvalidInput when one of them is empty.
C5_NonOwnerNeverMutates ==
    \A id \in DOMAIN pets : \A c \in NonOwners(id) :
        /\ ForGated(c, id, PetPayloads, LostLocations, LAMBDA o :
              /\ get_pet(o.state, id) = get_pet(Cur, id)
              /\ o.state = Cur)
        /\ ForGated(c, id, ValidPetPayloads, LostLocations \ {""}, LAMBDA o :
              o.ret.kind = "NotAuthorized")
        /\ \A p \in BlankPetPayloads :
              update_pet_info(Cur, c, now, id, p).ret.kind = "InvalidInput"
        /\ report_lost_pet(Cur, c, now, id, "").ret.kind = "InvalidInput"

\* a pet its owner has reported lost, which the other caller now tries to
\* change
C5_Witness ==
    \E id \in DOMAIN pets :
        /\ pets[id].is_lost
        /\ pets[id].updated_at # None
        /\ \E c \in NonOwners(id) :
             update_pet_info(Cur, c, now, id, CHOOSE p \in ValidPetPayloads :
                 p.pet_color # pets[id].pet_color).ret.kind = "NotAuthorized"

\* C6: on an existing pet, report_lost_pet by the owner with a non-empty
\* location followed at once by report_found_pet by any caller with
\* non-empty finder and location: both succeed, the pet ends not lost with
\* no lost_location, and the found-report map holds for the id the report
\* with the id, finder and location supplied.
C6_LostThenFound ==
    \A id \in DOMAIN pets : \A l \in LostLocations \ {""} :
        \A o1 \in {report_lost_pet(Cur, pets[id].owner, now, id, l)} :
            /\ o1.ret.kind = "Ok"
            /\ o1.ret.value.is_lost
            /\ \A c \in Callers, p \in ValidFoundPetReportPayloads, t \in now..MaxTime :
                 \A o2 \in {report_found_pet(o1.state, c, t, id, p)} :
                     /\ o2.ret.kind = "Ok"
                     /\ o2.ret.value = o2.state.pets[id]
                     /\ o2.state.pets[id].is_lost = FALSE
                     /\ o2.state.pets[id].lost_location = None
                     /\ id \in DOMAIN o2.state.found
                     /\ o2.state.found[id].pet_id = id
                     /\ o2.state.found[id].finder_name = p.finder_name
                     /\ o2.state.found[id].found_location = p.found_location
                     /\ DOMAIN o2.state.found = DOMAIN found \cup {id}

\* a pet that was reported lost and then found in the very next write: the
\* report carries the time of the pet's last update
C6_Witness ==
    \E id \in DOMAIN pets \cap DOMAIN found :
        /\ ~pets[id].is_lost
        /\ pets[id].lost_location = None
        /\ pets[id].updated_at = Some(found[id].created_at)
        /\ found[id].finder_name = "Bob"

\* C7: report_found_pet on an existing pet that is not lost returns
\* InvalidInput, for every caller and payload, and leaves the pet record and
\* the found-report map as they were.
C7_FoundOnAvailableRejected ==
    \A id \in DOMAIN pets :
        ~pets[id].is_lost =>
            \A c \in Callers, p \in FoundPetReportPayloads :
                \A o \in {report_found_pet(Cur, c, now, id, p)} :
                    /\ o.ret.kind = "InvalidInput"
                    /\ o.state.pets = pets
                    /\ o.state.found = found

\* a pet that is not lost and has a found report a second report would
\* replace, at a later time than the report's
C7_Witness ==
    \E id \in DOMAIN pets \cap DOMAIN found :
        /\ ~pets[id].is_lost
        /\ found[id].created_at < now

\* the ids of the records get_all_pets returns
ListedIds == { get_all_pets(Cur)[i].id : i \in 1..Len(get_all_pets(Cur)) }

\* C8 as stated: once delete_pet(id) succeeded, get_pet(id) is absent,
\* get_all_pets does not list the id, and every delete_pet, update_pet_info
\* and report_lost_pet on the id returns NotFound.
C8_DeletedAlwaysNotFound ==
    \A id \in deleted :
        /\ get_pet(Cur, id) = None
        /\ id \notin ListedIds
        /\ \A c \in Callers :
             ForGated(c, id, PetPayloads, LostLocations, LAMBDA o :
                 o.ret.kind = "NotFound")

\* C8 as amended: once delete_pet(id) succeeded, in every later state
\* get_pet(id) is absent, get_all_pets does not list the id and no
\* register_pet puts a record under it again; every delete_pet on the id,
\* and every update_pet_info and report_lost_pet on it whose string
\* arguments are all non-empty, returns NotFound, while update_pet_info
\* or report_lost_pet with an empty string returns InvalidInput.
C8_DeletedStaysAbsent ==
    \A id \in deleted :
        /\ get_pet(Cur, id) = None
        /\ id \notin ListedIds
        /\ ForRegister(LAMBDA o : get_pet(o.state, id) = None)
        /\ \A c \in Callers :
             /\ ForGated(c, id, ValidPetPayloads, LostLocations \ {""}, LAMBDA o :
                   o.ret.kind = "NotFound")
             /\ \A p \in BlankPetPayloads :
                   update_pet_info(Cur, c, now, id, p).ret.kind = "InvalidInput"
             /\ report_lost_pet(Cur, c, now, id, "").ret.kind = "InvalidInput"

\* a pet was deleted and another was registered after it
C8_Witness ==
    \E id \in deleted : \E k \in DOMAIN pets :
        /\ k > id
        /\ pets[k].created_at > 0
        /\ delete_pet(Cur, pets[k].owner, id).ret.kind = "NotFound"

\* C9: a register_pet with a valid payload succeeds; get_pet of the id it
\* returns, asked right after, gives the record returned, and that record
\* carries the payload's name, breed, color and photo, the caller as owner,
\* is_lost false and neither lost_location nor updated_at.
C9_GetAfterRegister ==
    \A c \in Callers, p \in ValidPetPayloads :
        \A o \in {register_pet(Cur, c, now, p)} :
            /\ o.ret.kind = "Ok"
            /\ get_pet(o.state, o.ret.value.id) = Some(o.ret.value)
            /\ o.ret.value.pet_name = p.pet_name
            /\ o.ret.value.pet_breed = p.pet_breed
            /\ o.ret.value.pet_color = p.pet_color
            /\ o.ret.value.pet_photo = p.pet_photo
            /\ o.ret.value.owner = c
            /\ o.ret.value.is_lost = FALSE
            /\ o.ret.value.lost_location = None
            /\ o.ret.value.updated_at = None

\* right after the second registration, made by the other caller at a
\* later time than the first: the new record is the one stored under the
\* id issued last
C9_Witness ==
    /\ Len(issued) = 2
    /\ issued[2] \in DOMAIN pets
    /\ issued[1] \in DOMAIN pets
    /\ pets[issued[2]].created_at = now
    /\ pets[issued[2]].created_at > pets[issued[1]].created_at
    /\ pets[issued[2]].owner # pets[issued[1]].owner
    /\ pets[issued[2]].updated_at = None

\* C10: the counter equals the number of successful register_pet calls so
\* far; a register_pet that succeeds raises it by exactly one, a rejected
\* register_pet and every other call leave it as it is.
C10_CounterCountsRegistrations ==
    /\ counter = Len(issued)
    /\ ForRegister(LAMBDA o :
         o.state.counter = IF o.ret.kind = "Ok" THEN counter + 1 ELSE counter)
    /\ ForReportLost(LAMBDA o : o.state.counter = counter)
    /\ ForReportFound(LAMBDA o : o.state.counter = counter)
    /\ ForDelete(LAMBDA o : o.state.counter = counter)
    /\ ForUpdate(LAMBDA o : o.state.counter = counter)

\* two registrations and a delete: one pet is stored, the counter is two
C10_Witness ==
    /\ counter = 2
    /\ deleted # {}
    /\ Cardinality(DOMAIN pets) = 1

\* C11: a successful update_pet_info stores, and returns, the record it
\* found with the payload's name, breed, color and photo and with
\* updated_at set to the time of the call; id, owner, created_at, is_lost
\* and lost_location are as before, for a pet that is lost as for one that
\* is not.  The owner's call with a valid payload is such a call.
C11_UpdateChangesDescriptiveFieldsOnly ==
    /\ \A c \in Callers, id \in Ids, p \in PetPayloads :
         \A o \in {update_pet_info(Cur, c, now, id, p)} :
             o.ret.kind = "Ok" =>
                /\ id \in DOMAIN pets
                /\ o.state.pets[id] = o.ret.value
                /\ o.ret.value.pet_name = p.pet_name
                /\ o.ret.value.pet_breed = p.pet_breed
                /\ o.ret.value.pet_color = p.pet_color
                /\ o.ret.value.pet_photo = p.pet_photo
                /\ o.ret.value.updated_at = Some(now)
                /\ o.ret.value.id = pets[id].id
                /\ o.ret.value.owner = pets[id].owner
                /\ o.ret.value.created_at = pets[id].created_at
                /\ o.ret.value.is_lost = pets[id].is_lost
                /\ o.ret.value.lost_location = pets[id].lost_location
    /\ \A id \in DOMAIN pets, p \in ValidPetPayloads :
         update_pet_info(Cur, pets[id].owner, now, id, p).ret.kind = "Ok"

\* a lost pet and a pet that is not lost, each of which its owner can
\* update with a color it does not have, at a later time than it was made
C11_Witness ==
    /\ \E id \in DOMAIN pets : pets[id].is_lost /\ pets[id].created_at < now
    /\ \E id \in DOMAIN pets : ~pets[id].is_lost /\ pets[id].created_at < now
    /\ \A id \in DOMAIN pets : \E p \in ValidPetPayloads :
         /\ p.pet_color # pets[id].pet_color
         /\ update_pet_info(Cur, pets[id].owner, now, id, p).ret.kind = "Ok"

\* C12: the found-report map is written by a successful report_found_pet
\* only.  Every other call, and a rejected report_found_pet, leaves it as it
\* is: a report stored for an id stays stored, also when delete_pet removes
\* the pet.  A successful report_found_pet on id puts the report with its
\* finder and location under id, replacing the one stored there, and leaves
\* the reports of the other ids alone.
C12_FoundReportsWrittenByReportFoundOnly ==
    /\ ForRegister(LAMBDA o : o.state.found = found)
    /\ ForReportLost(LAMBDA o : o.state.found = found)
    /\ ForDelete(LAMBDA o : o.state.found = found)
    /\ ForUpdate(LAMBDA o : o.state.found = found)
    /\ \A c \in Callers, id \in Ids, p \in FoundPetReportPayloads :
         \A o \in {report_found_pet(Cur, c, now, id, p)} :
             IF o.ret.kind = "Ok"
             THEN /\ DOMAIN o.state.found = DOMAIN found \cup {id}
                  /\ o.state.found[id] =
                        [pet_id |-> id, finder_name |-> p.finder_name,
                         found_location |-> p.found_location, created_at |-> now]
                  /\ \A k \in DOMAIN found \ {id} : o.state.found[k] = found[k]
             ELSE o.state.found = found
    \* a stored report survives the delete of its pet, and a second
    \* lost-and-found round replaces it
    /\ \A id \in DOMAIN found \cap DOMAIN pets :
         /\ \A o \in {delete_pet(Cur, pets[id].owner, id)} :
               /\ o.ret.kind = "Ok"
               /\ get_pet(o.state, id) = None
               /\ id \in DOMAIN o.state.found
               /\ o.state.found[id] = found[id]
         /\ \A l \in LostLocations \ {""}, c \in Callers, p \in ValidFoundPetReportPayloads :
               \A o1 \in {report_lost_pet(Cur, pets[id].owner, now, id, l)} :
                   /\ o1.state.found = found
                   /\ \A o2 \in {report_found_pet(o1.state, c, now, id, p)} :
                         /\ o2.ret.kind = "Ok"
                         /\ o2.state.found[id].finder_name = p.finder_name
                         /\ o2.state.found[id].found_location = p.found_location

\* a report is stored for a pet its owner can delete, at a later time than
\* the report's, and a second report with another location would replace it
C12_Witness ==
    \E id \in DOMAIN found \cap DOMAIN pets :
        /\ found[id].found_location = "5th Ave"
        /\ found[id].created_at < now
        /\ delete_pet(Cur, pets[id].owner, id).ret.kind = "Ok"

\* the records of s2 that s1 already had carry the is_lost they had in s1
SameFlags(s1, s2) ==
    \A k \in DOMAIN s1.pets \cap DOMAIN s2.pets :
        s2.pets[k].is_lost = s1.pets[k].is_lost

\* C13: a record is created with is_lost = FALSE; is_lost goes from FALSE
\* to TRUE only by a successful report_lost_pet on that id called by the
\* owner, and from TRUE to FALSE only by a successful report_found_pet on
\* that id; register_pet, update_pet_info and delete_pet leave the is_lost
\* of every record they keep as it is, and the two queries change nothing.
C13_LostFlagStateMachine ==
    /\ ForRegister(LAMBDA o :
          /\ SameFlags(Cur, o.state)
          /\ o.ret.kind = "Ok" => ~o.ret.value.is_lost /\ ~o.state.pets[o.ret.value.id].is_lost)
    /\ ForUpdate(LAMBDA o : SameFlags(Cur, o.state))
    /\ ForDelete(LAMBDA o : SameFlags(Cur, o.state))
    /\ \A c \in Callers, id \in Ids, l \in LostLocations :
         \A o \in {report_lost_pet(Cur, c, now, id, l)} :
             \A k \in DOMAIN pets \cap DOMAIN o.state.pets :
                 o.state.pets[k].is_lost # pets[k].is_lost =>
                    /\ k = id
                    /\ o.ret.kind = "Ok"
                    /\ c = pets[k].owner
                    /\ ~pets[k].is_lost
                    /\ o.state.pets[k].is_lost
    /\ \A c \in Callers, id \in Ids, p \in FoundPetReportPayloads :
         \A o \in {report_found_pet(Cur, c, now, id, p)} :
             \A k \in DOMAIN pets \cap DOMAIN o.state.pets :
                 o.state.pets[k].is_lost # pets[k].is_lost =>
                    /\ k = id
                    /\ o.ret.kind = "Ok"
                    /\ pets[k].is_lost
                    /\ ~o.state.pets[k].is_lost
    /\ \A id \in DOMAIN pets :
         /\ get_pet(Cur, id) = Some(pets[id])
         /\ \A i \in 1..Len(get_all_pets(Cur)) :
               get_all_pets(Cur)[i].is_lost = pets[get_all_pets(Cur)[i].id].is_lost

\* a lost pet next to one that is not: the owner of the second can report
\* it lost, anyone can report the first found, and the other owner's pet is
\* not his to report
C13_Witness ==
    \E i \in DOMAIN pets, j \in DOMAIN pets :
        /\ pets[i].is_lost /\ ~pets[j].is_lost
        /\ pets[i].owner # pets[j].owner
        /\ report_lost_pet(Cur, pets[j].owner, now, j, "Main St").state.pets[j].is_lost
        /\ ~report_found_pet(Cur, pets[j].owner, now, i,
                [finder_name |-> "Bob", found_location |-> "Pier 4"]).state.pets[i].is_lost

\* what the two queries return in the current state: get_all_pets lists
\* each stored record once, by increasing id, and nothing else; get_pet
\* returns the stored record, or None for an id with no record
QueryResults ==
    /\ \A all \in {get_all_pets(Cur)} :
         /\ Len(all) = Cardinality(DOMAIN pets)
         /\ \A i \in 1..Len(all) :
               all[i].id \in DOMAIN pets /\ all[i] = pets[all[i].id]
         /\ \A id \in DOMAIN pets : \E i \in 1..Len(all) : all[i] = pets[id]
         /\ \A i \in 1..Len(all), j \in 1..Len(all) : i < j => all[i].id < all[j].id
    /\ \A id \in Ids :
         get_pet(Cur, id) = IF id \in DOMAIN pets THEN Some(pets[id]) ELSE None

\* C14: get_pet and get_all_pets change neither the counter nor the pet map
\* nor the found-report map, and in every state get_all_pets returns every
\* stored record exactly once in increasing id order and get_pet(id)
\* returns the stored record or None.
C14_QueriesReadOnly ==
    /\ []QueryResults
    /\ [][(GetPet \/ GetAllPets) => UNCHANGED <<counter, pets, found>>]_vars

\* two records are stored and one id has none, so the order of the listing
\* and the absent answer of get_pet both show
C14_Witness ==
    /\ Len(get_all_pets(Cur)) = 2
    /\ get_all_pets(Cur)[1].id < get_all_pets(Cur)[2].id
    /\ \E id \in Ids : get_pet(Cur, id) = None
    /\ \E id \in Ids : get_pet(Cur, id) # None

\* the records of s2 that s1 already had carry the id, owner and created_at
\* they had in s1
SameIdentity(s1, s2) ==
    \A k \in DOMAIN s1.pets \cap DOMAIN s2.pets :
        /\ s2.pets[k].id = s1.pets[k].id
        /\ s2.pets[k].owner = s1.pets[k].owner
        /\ s2.pets[k].created_at = s1.pets[k].created_at

\* C15: while a record is stored its id, owner and created_at stay what
\* register_pet made them: the record register_pet stores has the new id,
\* the caller as owner and the time of the call as created_at, and no call
\* of any operation by any caller, with any arguments, alters these three
\* fields of a record it leaves in the map.
C15_IdentityFieldsNeverChange ==
    /\ \A c \in Callers, p \in PetPayloads :
         \A o \in {register_pet(Cur, c, now, p)} :
             /\ SameIdentity(Cur, o.state)
             /\ o.ret.kind = "Ok" =>
                   /\ o.ret.value.owner = c
                   /\ o.ret.value.created_at = now
                   /\ o.state.pets[o.ret.value.id] = o.ret.value
    /\ ForUpdate(LAMBDA o : SameIdentity(Cur, o.state))
    /\ ForReportLost(LAMBDA o : SameIdentity(Cur, o.state))
    /\ ForReportFound(LAMBDA o : SameIdentity(Cur, o.state))
    /\ ForDelete(LAMBDA o : SameIdentity(Cur, o.state))
    /\ \A id \in DOMAIN pets :
         /\ pets[id].created_at <= now
         /\ pets[id].owner \in Callers

\* a lost pet, made at an earlier time, that a caller other than its owner
\* can report found
C15_Witness ==
    \E id \in DOMAIN pets : \E c \in Callers \ {pets[id].owner} :
        /\ pets[id].is_lost
        /\ pets[id].created_at < now
        /\ \A o \in {report_found_pet(Cur, c, now, id,
                         [finder_name |-> "Bob", found_location |-> "5th Ave"])} :
              o.ret.kind = "Ok" /\ o.state.pets[id].updated_at = Some(now)

\* C16 as stated: with an id that has no record, update_pet_info,
\* report_lost_pet and report_found_pet return NotFound whatever the other
\* arguments are, empty strings included.
C16_AbsentIdAlwaysNotFound ==
    \A id \in Ids \ DOMAIN pets : \A c \in Callers :
        /\ \A p \in PetPayloads :
              update_pet_info(Cur, c, now, id, p).ret.kind = "NotFound"
        /\ \A l \in LostLocations :
              report_lost_pet(Cur, c, now, id, l).ret.kind = "NotFound"
        /\ \A p \in FoundPetReportPayloads :
              report_found_pet(Cur, c, now, id, p).ret.kind = "NotFound"

\* C16, amended: with an id that has no record the three operations return
\* NotFound when their string arguments are all non-empty, and InvalidInput
\* when one of them is empty, the emptiness check coming before the lookup;
\* in both cases nothing is stored.
C16_AbsentIdNotFoundUnlessBlank ==
    \A id \in Ids \ DOMAIN pets : \A c \in Callers :
        /\ \A p \in PetPayloads :
              \A o \in {update_pet_info(Cur, c, now, id, p)} :
                  /\ o.ret.kind = IF p \in ValidPetPayloads THEN "NotFound"
                                  ELSE "InvalidInput"
                  /\ o.state = Cur
        /\ \A l \in LostLocations :
              \A o \in {report_lost_pet(Cur, c, now, id, l)} :
                  /\ o.ret.kind = IF l # "" THEN "NotFound" ELSE "InvalidInput"
                  /\ o.state = Cur
        /\ \A p \in FoundPetReportPayloads :
              \A o \in {report_found_pet(Cur, c, now, id, p)} :
                  /\ o.ret.kind = IF p \in ValidFoundPetReportPayloads THEN "NotFound"
                                  ELSE "InvalidInput"
                  /\ o.state = Cur

\* records are stored, one id was never issued and another was issued and
\* deleted: both are absent ids the three operations can be called with
C16_Witness ==
    /\ pets # <<>>
    /\ \E id \in Ids \ DOMAIN pets : id >= counter
    /\ \E id \in deleted : id \notin DOMAIN pets

\* C17: report_lost_pet(id, L) by the owner on a pet that is lost already
\* succeeds, leaves is_lost TRUE and stores L as lost_location in place of
\* the old one; and for any stored pet, the owner's report_lost_pet with L
\* made twice in a row leaves the record the first call left, but for
\* updated_at, which is the time of the second call.
C17_ReportLostAgainOverwrites ==
    \A id \in DOMAIN pets : \A l \in LostLocations \ {""} :
        \A o1 \in {report_lost_pet(Cur, pets[id].owner, now, id, l)} :
            /\ o1.ret.kind = "Ok"
            /\ o1.state.pets[id].is_lost
            /\ o1.state.pets[id].lost_location = Some(l)
            /\ o1.state.pets[id] = [pets[id] EXCEPT !.is_lost = TRUE,
                                                    !.lost_location = Some(l),
                                                    !.updated_at = Some(now)]
            /\ \A t \in now..MaxTime :
                  \A o2 \in {report_lost_pet(o1.state, pets[id].owner, t, id, l)} :
                      /\ o2.ret.kind = "Ok"
                      /\ o2.state.pets[id] =
                            [o1.state.pets[id] EXCEPT !.updated_at = Some(t)]
                      /\ o2.state.counter = o1.state.counter
                      /\ o2.state.found = o1.state.found
                      /\ DOMAIN o2.state.pets = DOMAIN o1.state.pets

\* a pet is lost at one location and its owner can report it lost at
\* another, at a later time than the first report
C17_Witness ==
    \E id \in DOMAIN pets :
        /\ pets[id].is_lost
        /\ pets[id].lost_location = Some("Central Park")
        /\ pets[id].updated_at # Some(now)
        /\ report_lost_pet(Cur, pets[id].owner, now, id, "Main St").state.pets[id].lost_location
              = Some("Main St")

\* C18: report_found_pet writes the report before the pet record.  Of the
\* states a successful call goes through, the last is the state the call
\* leaves, and none has the pet with is_lost FALSE without the call's report
\* stored under the id; in the state between the two writes the pet map is
\* untouched, so the pet is still lost, the report is stored, and
\* report_found_pet on the id succeeds again, by any caller, and with the
\* same arguments ends where the uninterrupted call ends.  A rejected call
\* goes through no state but the one it started in.
C18_ReportWrittenBeforePet ==
    \A c \in Callers, id \in Ids, p \in FoundPetReportPayloads :
        \A o \in {report_found_pet(Cur, c, now, id, p)} :
            \A w \in {report_found_pet_writes(Cur, c, now, id, p)} :
                IF o.ret.kind = "Ok"
                THEN /\ Len(w) = 3
                     /\ w[1] = Cur
                     /\ w[3] = o.state
                     /\ \A i \in 1..3 :
                           ~w[i].pets[id].is_lost =>
                               /\ id \in DOMAIN w[i].found
                               /\ w[i].found[id] = o.state.found[id]
                     /\ w[2].pets = pets
                     /\ w[2].pets[id].is_lost
                     /\ w[2].found = o.state.found
                     /\ report_found_pet(w[2], c, now, id, p).state = o.state
                     /\ \A c2 \in Callers, p2 \in ValidFoundPetReportPayloads, t \in now..MaxTime :
                           \A o2 \in {report_found_pet(w[2], c2, t, id, p2)} :
                               /\ o2.ret.kind = "Ok"
                               /\ ~o2.state.pets[id].is_lost
                               /\ o2.state.found[id].created_at = t
                ELSE w = <<Cur>>

\* the state an interrupted first report_found_pet leaves: a pet that was
\* reported lost once is still lost and a report for it is stored, no older
\* than the lost report
C18_Witness ==
    \E id \in DOMAIN pets \cap DOMAIN found :
        /\ pets[id].is_lost
        /\ Some(found[id].created_at) = pets[id].updated_at
        /\ now > found[id].created_at
        /\ report_found_pet(Cur, pets[id].owner, now, id,
                [finder_name |-> "Bob", found_location |-> "Pier 4"]).ret.kind = "Ok"

\* the entries of s2 under keys other than id are the entries of s1
OthersUntouched(s1, s2, id) ==
    /\ DOMAIN s2.pets \ {id} = DOMAIN s1.pets \ {id}
    /\ DOMAIN s2.found \ {id} = DOMAIN s1.found \ {id}
    /\ \A k \in DOMAIN s1.pets \ {id} : s2.pets[k] = s1.pets[k]
    /\ \A k \in DOMAIN s1.found \ {id} : s2.found[k] = s1.found[k]

\* C19: update_pet_info, report_lost_pet, report_found_pet and delete_pet
\* on an id leave the pet records and the found reports under every other
\* key as they are, whether they succeed or not; a successful register_pet
\* stores its record under a key the pet map did not have, leaves every
\* record that was there and all found reports unchanged, and so makes the
\* pet map one entry larger.
C19_OnlyTargetEntryChanges ==
    /\ \A c \in Callers, id \in Ids :
         /\ \A p \in PetPayloads :
               OthersUntouched(Cur, update_pet_info(Cur, c, now, id, p).state, id)
         /\ \A l \in LostLocations :
               OthersUntouched(Cur, report_lost_pet(Cur, c, now, id, l).state, id)
         /\ \A p \in FoundPetReportPayloads :
               OthersUntouched(Cur, report_found_pet(Cur, c, now, id, p).state, id)
         /\ OthersUntouched(Cur, delete_pet(Cur, c, id).state, id)
    /\ ForRegister(LAMBDA o :
          o.ret.kind = "Ok" =>
             /\ o.ret.value.id \notin DOMAIN pets
             /\ DOMAIN o.state.pets = DOMAIN pets \cup {o.ret.value.id}
             /\ Cardinality(DOMAIN o.state.pets) = Cardinality(DOMAIN pets) + 1
             /\ \A k \in DOMAIN pets : o.state.pets[k] = pets[k]
             /\ o.state.found = found)

\* two pets are stored, one of them lost, so that each operation has a
\* target and a record that is not its target, and another pet can still
\* be registered
C19_Witness ==
    /\ Cardinality(DOMAIN pets) = 2
    /\ \E id \in DOMAIN pets : pets[id].is_lost
    /\ ~ForRegister(LAMBDA o : o.ret.kind # "Ok")

\* C20: every pet record is stored under its own id, every found report
\* under its pet_id, and every key of the two maps is less than the
\* counter; a successful register_pet stores under the counter's old value
\* and leaves the counter above it.
C20_KeysAreIssuedIds ==
    /\ \A k \in DOMAIN pets : pets[k].id = k /\ k < counter
    /\ \A k \in DOMAIN found : found[k].pet_id = k /\ k < counter
    /\ ForRegister(LAMBDA o :
          o.ret.kind = "Ok" =>
             /\ o.state.pets[o.ret.value.id].id = o.ret.value.id
             /\ o.ret.value.id < o.state.counter)

\* pets and found reports are stored, the newest id issued is the counter
\* less one and is a key, and time has passed since the reports were made
C20_Witness ==
    /\ counter > 0
    /\ counter - 1 \in DOMAIN pets \cup DOMAIN found
    /\ found # <<>>
    /\ pets # <<>>
    /\ \A k \in DOMAIN found : found[k].created_at < now

====
